---------------------------- MODULE Spec2Model ----------------------------
(***************************************************************************)
(* Model of Security_logon_logoff.py: one run of main() over an event-log  *)
(* document.  Text that the program parses, formats or compares (the       *)
(* SystemTime attribute, utc_time, local_time) is a sequence of one-       *)
(* character strings, so that parsing, formatting and the lexical sort are *)
(* computed character by character.  Other text fields are TLA+ strings.   *)
(***************************************************************************)
EXTENDS Integers, Sequences, FiniteSets, TLC

(***************************************************************************)
(* Bound of the model: the number of Event elements in the document.       *)
(***************************************************************************)
MaxEvents == 2

(* Python's None for the text fields and attributes that may be absent.    *)
None == "<None>"

(***************************************************************************)
(* Configuration (source lines 10-32).                                     *)
(***************************************************************************)
WINDOW_START_HOUR == 9

WINDOW_END_HOUR == 18

SYSTEM_EVENTS ==
    [k \in {"12", "13", "6005", "6006", "6008"} |->
        CASE k = "12"   -> "SystemStart (Kernel-General)"
          [] k = "13"   -> "SystemShutdown (Kernel-General)"
          [] k = "6005" -> "EventLog Started (Boot)"
          [] k = "6006" -> "EventLog Stopped (Shutdown)"
          [] k = "6008" -> "Unexpected Shutdown"]

SECURITY_EVENTS ==
    [k \in {"4624", "4625", "4634", "4647", "4672", "4800", "4801"} |->
        CASE k = "4624" -> "Logon Success"
          [] k = "4625" -> "Logon Failure"
          [] k = "4634" -> "Logoff"
          [] k = "4647" -> "User Initiated Logoff"
          [] k = "4672" -> "Special Privileges Assigned"
          [] k = "4800" -> "Workstation Locked"
          [] k = "4801" -> "Workstation Unlocked"]

(* A plausible slip: an identifier outside both tables is let through.     *)
ALL_EVENTS_extra == SYSTEM_EVENTS @@ SECURITY_EVENTS @@ ("9999" :> "Other")

(* {**SYSTEM_EVENTS, **SECURITY_EVENTS}: the later table wins on a shared  *)
(* key (there is none).                                                    *)
ALL_EVENTS == SECURITY_EVENTS @@ SYSTEM_EVENTS

(***************************************************************************)
(* Characters.                                                             *)
(***************************************************************************)
DigitChars == <<"0", "1", "2", "3", "4", "5", "6", "7", "8", "9">>

IsDigit(c) == \E k \in 1..10 : DigitChars[k] = c

DigitVal(c) == (CHOOSE k \in 1..10 : DigitChars[k] = c) - 1

(* Code points of the characters that occur in the strings the sort        *)
(* compares (isoformat output): str comparison is by code point.           *)
CodePoint(c) ==
    CASE c = " " -> 32
      [] c = "+" -> 43
      [] c = "-" -> 45
      [] c = "." -> 46
      [] IsDigit(c) -> 48 + DigitVal(c)
      [] c = ":" -> 58
      [] c = "T" -> 84
      [] c = "Z" -> 90

(* s < t for two str values.                                               *)
RECURSIVE StrLess(_, _)
StrLess(s, t) ==
    IF t = << >> THEN FALSE
    ELSE IF s = << >> THEN TRUE
    ELSE IF s[1] = t[1] THEN StrLess(Tail(s), Tail(t))
    ELSE CodePoint(s[1]) < CodePoint(t[1])

(* str.strip(): leading and trailing blanks removed.                       *)
RECURSIVE strip(_)
strip(s) ==
    IF s = << >> THEN s
    ELSE IF s[1] = " " THEN strip(Tail(s))
    ELSE IF s[Len(s)] = " " THEN strip(SubSeq(s, 1, Len(s) - 1))
    ELSE s

(* str.replace("Z", "+00:00"): every Z of the text.                        *)
RECURSIVE replace_Z(_)
replace_Z(s) ==
    IF s = << >> THEN s
    ELSE IF s[1] = "Z" THEN <<"+", "0", "0", ":", "0", "0">> \o replace_Z(Tail(s))
    ELSE <<s[1]>> \o replace_Z(Tail(s))

Two(n) == <<DigitChars[(n \div 10) + 1], DigitChars[(n % 10) + 1]>>

Four(n) == Two(n \div 100) \o Two(n % 100)

Num2(s, p) == 10 * DigitVal(s[p]) + DigitVal(s[p + 1])

Digits(s, p, n) == \A k \in p..(p + n - 1) : IsDigit(s[k])

(***************************************************************************)
(* datetime values.  tz is "naive" (tzinfo is None), "fixed" (the          *)
(* timezone(offset) that fromisoformat attaches) or "America/New_York";    *)
(* utcoffset is in minutes and is 0 for a naive value.                     *)
(***************************************************************************)
DateTime(y, mo, d, h, mi, s, us, tz, off) ==
    [year |-> y, month |-> mo, day |-> d, hour |-> h, minute |-> mi,
     second |-> s, microsecond |-> us, tz |-> tz, utcoffset |-> off]

IsLeap(y) == (y % 4 = 0) /\ ((y % 100 # 0) \/ (y % 400 = 0))

DaysInMonth(y, m) ==
    IF m = 2 THEN (IF IsLeap(y) THEN 29 ELSE 28)
    ELSE IF m \in {4, 6, 9, 11} THEN 30 ELSE 31

(* Days from 1970-01-01 to the proleptic Gregorian date y-m-d: the years   *)
(* are counted from March, in eras of 400 years (146097 days).             *)
DaysFromMarch(yy, mp, d) ==
    (yy \div 400) * 146097
    + (yy % 400) * 365 + (yy % 400) \div 4 - (yy % 400) \div 100
    + (153 * mp + 2) \div 5 + d - 1
    - 719468

DaysFromCivil(y, m, d) == DaysFromMarch(IF m <= 2 THEN y - 1 ELSE y, (m + 9) % 12, d)

(* The date that lies z days after 1970-01-01, by way of the day of the    *)
(* era (doe), the year of the era (yoe), the day of the March-based year   *)
(* (doy) and its month (mp).                                               *)
CivilFromMp(y, doy, mp) ==
    [year  |-> IF mp < 10 THEN y ELSE y + 1,
     month |-> IF mp < 10 THEN mp + 3 ELSE mp - 9,
     day   |-> doy - (153 * mp + 2) \div 5 + 1]

CivilFromDoy(y, doy) == CivilFromMp(y, doy, (5 * doy + 2) \div 153)

CivilFromYoe(era, doe, yoe) ==
    CivilFromDoy(yoe + era * 400, doe - (365 * yoe + yoe \div 4 - yoe \div 100))

CivilFromDoe(era, doe) ==
    CivilFromYoe(era, doe,
                 (doe - doe \div 1460 + doe \div 36524 - doe \div 146096) \div 365)

CivilFromDays(z) == CivilFromDoe((z + 719468) \div 146097, (z + 719468) % 146097)

(* 0 = Sunday ... 6 = Saturday; 1970-01-01 was a Thursday.                 *)
Weekday(days) == (days + 4) % 7

(* The n-th Sunday of month m of year y, as a day number.                  *)
NthSunday(y, m, n) ==
    LET first == DaysFromCivil(y, m, 1)
    IN  first + ((7 - Weekday(first)) % 7) + 7 * (n - 1)

(***************************************************************************)
(* datetime.fromisoformat on the forms                                     *)
(*     YYYY-MM-DD?HH:MM:SS[.fff][+HH:MM | -HH:MM]                          *)
(* (? is any single character); every other text raises ValueError.  A     *)
(* trailing Z is not accepted, which is why the program rewrites it.       *)
(***************************************************************************)
NoDateTime == DateTime(1, 1, 1, 0, 0, 0, 0, "naive", 0)

fromisoformat(s) ==
    LET n      == Len(s)
        frac   == n >= 20 /\ s[20] = "."
        tzat   == IF frac THEN 24 ELSE 20
        shape  == /\ n >= 19
                  /\ Digits(s, 1, 4) /\ s[5] = "-" /\ Digits(s, 6, 2)
                  /\ s[8] = "-" /\ Digits(s, 9, 2)
                  /\ Digits(s, 12, 2) /\ s[14] = ":" /\ Digits(s, 15, 2)
                  /\ s[17] = ":" /\ Digits(s, 18, 2)
                  /\ (frac => (n >= 23 /\ Digits(s, 21, 3)))
                  /\ \/ n = tzat - 1
                     \/ /\ n = tzat + 5
                        /\ s[tzat] \in {"+", "-"}
                        /\ Digits(s, tzat + 1, 2) /\ s[tzat + 3] = ":"
                        /\ Digits(s, tzat + 4, 2)
        aware  == n = tzat + 5
        y      == 1000 * DigitVal(s[1]) + 100 * DigitVal(s[2]) + Num2(s, 3)
        mo     == Num2(s, 6)
        d      == Num2(s, 9)
        h      == Num2(s, 12)
        mi     == Num2(s, 15)
        sec    == Num2(s, 18)
        us     == IF frac
                  THEN 1000 * (100 * DigitVal(s[21]) + Num2(s, 22))
                  ELSE 0
        offabs == 60 * Num2(s, tzat + 1) + Num2(s, tzat + 4)
        off    == IF aware
                  THEN (IF s[tzat] = "-" THEN 0 - offabs ELSE offabs)
                  ELSE 0
        range  == /\ y >= 1 /\ mo \in 1..12 /\ d \in 1..DaysInMonth(y, mo)
                  /\ h <= 23 /\ mi <= 59 /\ sec <= 59
                  /\ (aware => (Num2(s, tzat + 1) <= 23 /\ Num2(s, tzat + 4) <= 59))
    IN  IF shape /\ range
        THEN [ok |-> TRUE,
              dt |-> DateTime(y, mo, d, h, mi, sec, us,
                              IF aware THEN "fixed" ELSE "naive", off)]
        ELSE [ok |-> FALSE, dt |-> NoDateTime]

(***************************************************************************)
(* ZoneInfo("America/New_York"): the offset from UTC, in minutes, at the   *)
(* instant utcmin (minutes since 1970-01-01T00:00Z), by the rule in force  *)
(* since 2007: daylight time from the second Sunday of March, 02:00 EST,   *)
(* to the first Sunday of November, 02:00 EDT.                             *)
(***************************************************************************)
NewYorkOffset_std(utcmin) == 0 - 300

NewYorkOffset(utcmin) ==
    LET y     == CivilFromDays(utcmin \div 1440).year
        start == NthSunday(y, 3, 2) * 1440 + 7 * 60
        end   == NthSunday(y, 11, 1) * 1440 + 6 * 60
    IN  IF start <= utcmin /\ utcmin < end THEN 0 - 240 ELSE 0 - 300

(* Wall-clock minutes (since 1970-01-01T00:00 of its own clock) of dt.      *)
WallMinutes(dt) ==
    DaysFromCivil(dt.year, dt.month, dt.day) * 1440 + dt.hour * 60 + dt.minute

(***************************************************************************)
(* dt.astimezone(LOCAL_TZ).  An aware value is shifted from its own offset;*)
(* a naive value is presumed to be in the system's local time, whose       *)
(* offset from UTC is `system` minutes.                                    *)
(***************************************************************************)
astimezone(dt, system) ==
    LET utcmin == WallMinutes(dt) - (IF dt.tz = "naive" THEN system ELSE dt.utcoffset)
        off    == NewYorkOffset(utcmin)
        wall   == utcmin + off
        date   == CivilFromDays(wall \div 1440)
        tod    == wall % 1440
    IN  DateTime(date.year, date.month, date.day, tod \div 60, tod % 60,
                 dt.second, dt.microsecond, "America/New_York", off)

(***************************************************************************)
(* dt.isoformat(sep, timespec="seconds"): the microseconds are dropped,    *)
(* and an aware value carries its offset as +HH:MM or -HH:MM.              *)
(***************************************************************************)
isoformat(dt, sep) ==
    LET a == IF dt.utcoffset < 0 THEN 0 - dt.utcoffset ELSE dt.utcoffset
    IN  Four(dt.year) \o <<"-">> \o Two(dt.month) \o <<"-">> \o Two(dt.day)
        \o <<sep>>
        \o Two(dt.hour) \o <<":">> \o Two(dt.minute) \o <<":">> \o Two(dt.second)
        \o (IF dt.tz = "naive" THEN << >>
            ELSE <<IF dt.utcoffset < 0 THEN "-" ELSE "+">>
                 \o Two(a \div 60) \o <<":">> \o Two(a % 60))

(***************************************************************************)
(* The input.  An Event element of the document:                           *)
(*   System      whether it has a System child                             *)
(*   EventID     text of System/EventID, None when there is none           *)
(*   TimeCreated whether System/TimeCreated carries a SystemTime attribute *)
(*   SystemTime  that attribute's text                                     *)
(*   Provider    System/Provider/@Name, None when absent                   *)
(*   Computer    text of System/Computer, None when absent                 *)
(*   EventData   whether it has an EventData child                         *)
(*   Data        EventData's Data children in document order, each with    *)
(*               its Name attribute and its text (None when empty)         *)
(***************************************************************************)
(* "2025-08-21T13:05:00Z": 09:05:00 EDT *)
TS_Z ==
    <<"2", "0", "2", "5", "-", "0", "8", "-", "2", "1", "T", "1", "3", ":", "0", "5", ":", "0", "0", "Z">>

(* "2025-08-21T13:05:00+00:00": the same instant, explicit offset *)
TS_Offset0 ==
    <<"2", "0", "2", "5", "-", "0", "8", "-", "2", "1", "T", "1", "3", ":", "0", "5", ":", "0", "0", "+", "0", "0", ":", "0", "0">>

(* "2025-08-21T13:05:00": no timezone information *)
TS_Naive ==
    <<"2", "0", "2", "5", "-", "0", "8", "-", "2", "1", "T", "1", "3", ":", "0", "5", ":", "0", "0">>

(* "2025-08-21T13:00:00Z": 09:00:00 EDT, the first second of the window *)
TS_Open ==
    <<"2", "0", "2", "5", "-", "0", "8", "-", "2", "1", "T", "1", "3", ":", "0", "0", ":", "0", "0", "Z">>

(* "2025-08-21T22:00:00Z": 18:00:00 EDT, the first second after the window *)
TS_Close ==
    <<"2", "0", "2", "5", "-", "0", "8", "-", "2", "1", "T", "2", "2", ":", "0", "0", ":", "0", "0", "Z">>

(* "2025-08-21T21:59:59.789Z": 17:59:59 EDT, with a fraction of a second *)
TS_Last ==
    <<"2", "0", "2", "5", "-", "0", "8", "-", "2", "1", "T", "2", "1", ":", "5", "9", ":", "5", "9", ".", "7", "8", "9", "Z">>

(* "2025-01-15T13:05:00Z": 08:05:00 EST: standard time *)
TS_Winter ==
    <<"2", "0", "2", "5", "-", "0", "1", "-", "1", "5", "T", "1", "3", ":", "0", "5", ":", "0", "0", "Z">>

(* "2025-08-22T01:00:00+09:00": 12:00:00 EDT of the day before *)
TS_Tokyo ==
    <<"2", "0", "2", "5", "-", "0", "8", "-", "2", "2", "T", "0", "1", ":", "0", "0", ":", "0", "0", "+", "0", "9", ":", "0", "0">>

(* "2025-08-22T01:00:00": no timezone information, 01:00 *)
TS_NaiveNight ==
    <<"2", "0", "2", "5", "-", "0", "8", "-", "2", "2", "T", "0", "1", ":", "0", "0", ":", "0", "0">>

(* "yesterday": not a timestamp *)
TS_Garbage ==
    <<"y", "e", "s", "t", "e", "r", "d", "a", "y">>

Timestamps ==
    {TS_Z, TS_Offset0, TS_Naive, TS_Open, TS_Close, TS_Last, TS_Winter,
     TS_Tokyo, TS_NaiveNight, TS_Garbage}

Field(name, text) == [Name |-> name, text |-> text]

Event(eid, time, data) ==
    [System |-> TRUE, EventID |-> eid, TimeCreated |-> TRUE, SystemTime |-> time,
     Provider |-> "Microsoft-Windows-Security-Auditing", Computer |-> "WS01",
     EventData |-> TRUE, Data |-> data]

Alice == <<Field("TargetUserName", "alice")>>

(* One logon per timestamp, and one whose TimeCreated has no SystemTime.   *)
TimeEvents ==
    {Event("4624", t, Alice) : t \in Timestamps}
    \cup {[Event("4624", << >>, Alice) EXCEPT !.TimeCreated = FALSE]}

(* Identifiers: a logoff, a system event that carries user fields, a bare  *)
(* system event, identifiers outside the tables (one of them with an       *)
(* unparsable timestamp), and an Event without a System child.             *)
IdEvents ==
    {Event("4634", TS_Z, <<Field("SubjectUserName", "bob")>>),
     Event("6006", TS_Z, Alice),
     [Event("6006", TS_Open, << >>) EXCEPT
         !.Provider = None, !.Computer = None, !.EventData = FALSE],
     Event("9999", TS_Z, Alice),
     Event("9999", TS_Garbage, Alice),
     [Event(None, << >>, Alice) EXCEPT !.System = FALSE, !.TimeCreated = FALSE,
                                       !.Provider = None, !.Computer = None]}

(* Data children of a logon: none at all, none that names a user, both     *)
(* user fields in either order, and a first user field with empty text.    *)
UserEvents ==
    {[Event("4624", TS_Z, << >>) EXCEPT !.EventData = FALSE],
     Event("4624", TS_Z, <<Field("LogonType", "2")>>),
     Event("4624", TS_Z, <<Field("SubjectUserName", "bob"),
                           Field("TargetUserName", "alice")>>),
     Event("4624", TS_Z, <<Field("TargetUserName", "alice"),
                           Field("SubjectUserName", "bob")>>),
     Event("4624", TS_Z, <<Field("TargetUserName", None),
                           Field("SubjectUserName", "bob")>>)}

Events == TimeEvents \cup IdEvents \cup UserEvents

(* The Event descendants of the root, in document order.                   *)
Documents == UNION {[1..n -> Events] : n \in 0..MaxEvents}

(* Offsets from UTC, in minutes, of the local time of the machine that     *)
(* runs the script: UTC and Asia/Tokyo.                                    *)
SystemOffsets == {0, 540}

(***************************************************************************)
(* The program's functions.                                                *)
(***************************************************************************)

(* get_attr(system, "TimeCreated", "SystemTime"): None, or the text.       *)
SystemTimeAttr(ev) == [present |-> ev.TimeCreated, text |-> ev.SystemTime]

(* try_iso_to_dt_utc: ok is FALSE where the function returns None.         *)
try_iso_to_dt_utc(attr) ==
    IF ~attr.present \/ attr.text = << >>
    THEN [ok |-> FALSE, dt |-> NoDateTime]
    ELSE LET s0 == strip(attr.text)
             s  == IF s0 # << >> /\ s0[Len(s0)] = "Z"
                   THEN SubSeq(s0, 1, Len(s0) - 1) \o <<"+", "0", "0", ":", "0", "0">>
                   ELSE s0
         IN  fromisoformat(s)

(* A plausible slip: a timestamp that cannot be read becomes the epoch.    *)
resolve_dt_utc_default(attr) ==
    LET first  == try_iso_to_dt_utc(attr)
        second == IF attr.present THEN fromisoformat(replace_Z(attr.text))
                  ELSE [ok |-> FALSE, dt |-> NoDateTime]
    IN  IF first.ok /\ first.dt.tz # "naive" THEN [err |-> None, dt |-> first.dt]
        ELSE IF second.ok THEN [err |-> None, dt |-> second.dt]
        ELSE [err |-> None, dt |-> DateTime(1970, 1, 1, 0, 0, 0, 0, "fixed", 0)]

(* Lines 81-84: dt_utc, or the exception the fallback raises:              *)
(* None.replace is an AttributeError, an unreadable text a ValueError.     *)
resolve_dt_utc(attr) ==
    LET first == try_iso_to_dt_utc(attr)
    IN  IF first.ok /\ first.dt.tz # "naive"
        THEN [err |-> None, dt |-> first.dt]
        ELSE IF ~attr.present
        THEN [err |-> "AttributeError", dt |-> NoDateTime]
        ELSE LET second == fromisoformat(replace_Z(attr.text))
             IN  IF second.ok THEN [err |-> None, dt |-> second.dt]
                 ELSE [err |-> "ValueError", dt |-> NoDateTime]

(* A plausible slip: the upper bound taken inclusive.                      *)
in_window_local_closed(dt_local) ==
    WINDOW_START_HOUR <= dt_local.hour /\ dt_local.hour <= WINDOW_END_HOUR

in_window_local(dt_local) ==
    WINDOW_START_HOUR <= dt_local.hour /\ dt_local.hour < WINDOW_END_HOUR

IsUserField(d) == d.Name \in {"TargetUserName", "SubjectUserName"} /\ d.text # None

(* A plausible slip: TargetUserName preferred over SubjectUserName.        *)
extract_username_target_first(ev) ==
    IF ~ev.EventData THEN None
    ELSE LET T == {k \in 1..Len(ev.Data) :
                      ev.Data[k].Name = "TargetUserName" /\ ev.Data[k].text # None}
             S == {k \in 1..Len(ev.Data) : IsUserField(ev.Data[k])}
         IN  IF T # {} THEN ev.Data[CHOOSE k \in T : \A m \in T : k <= m].text
             ELSE IF S # {} THEN ev.Data[CHOOSE k \in S : \A m \in S : k <= m].text
             ELSE None

(* extract_username: the loop breaks at the first Data child that is named *)
(* TargetUserName or SubjectUserName and has non-empty text.               *)
extract_username(ev) ==
    IF ~ev.EventData THEN None
    ELSE LET S == {k \in 1..Len(ev.Data) : IsUserField(ev.Data[k])}
         IN  IF S = {} THEN None
             ELSE ev.Data[CHOOSE k \in S : \A m \in S : k <= m].text

(* A plausible slip: the user looked up for every category.                *)
user_of_any(ev) == extract_username(ev)

(* Line 92.                                                                *)
user_of(ev) ==
    IF ev.EventID \in DOMAIN SECURITY_EVENTS THEN extract_username(ev) ELSE None

(* x or "-"                                                                *)
OrDash(x) == IF x = None \/ x = "" THEN "-" ELSE x

(* Lines 89-103: the dict that is yielded.  pos is not a key of the dict:  *)
(* it records which Event of the document the row came from.               *)
Row(ev, pos, dt_utc, dt_local) ==
    [source     |-> IF ev.EventID \in DOMAIN SECURITY_EVENTS
                    THEN "security" ELSE "system",
     event_id   |-> ev.EventID,
     label      |-> IF ev.EventID = "4634" THEN "Logoff" ELSE ALL_EVENTS[ev.EventID],
     provider   |-> OrDash(ev.Provider),
     computer   |-> OrDash(ev.Computer),
     utc_time   |-> isoformat(dt_utc, "T"),
     local_time |-> isoformat(dt_local, " "),
     user       |-> OrDash(user_of(ev)),
     pos        |-> pos]

(* One turn of the loop of iter_relevant_events on the Event at pos:       *)
(* the Event is skipped, an exception leaves the generator, or a row is    *)
(* yielded.  system is the machine's offset from UTC.                      *)
Outcome(ev, pos, system) ==
    IF ~ev.System THEN [kind |-> "skip"]
    ELSE IF ev.EventID \notin DOMAIN ALL_EVENTS THEN [kind |-> "skip"]
    ELSE LET r == resolve_dt_utc(SystemTimeAttr(ev))
         IN  IF r.err # None THEN [kind |-> "raise", err |-> r.err]
             ELSE LET dt_local == astimezone(r.dt, system)
                  IN  IF ~in_window_local(dt_local) THEN [kind |-> "skip"]
                      ELSE [kind |-> "yield", row |-> Row(ev, pos, r.dt, dt_local)]

(* Insertion of r into a sorted list, before the first equal key.          *)
RECURSIVE InsertBeforeEqual(_, _)
InsertBeforeEqual(sorted, r) ==
    IF sorted = << >> THEN <<r>>
    ELSE IF StrLess(sorted[1].local_time, r.local_time)
    THEN <<sorted[1]>> \o InsertBeforeEqual(Tail(sorted), r)
    ELSE <<r>> \o sorted

(* Insertion of r into a sorted list, after the last key that is not       *)
(* greater.                                                                *)
RECURSIVE InsertAfterEqual(_, _)
InsertAfterEqual(sorted, r) ==
    IF sorted = << >> THEN <<r>>
    ELSE IF StrLess(r.local_time, sorted[1].local_time)
    THEN <<r>> \o sorted
    ELSE <<sorted[1]>> \o InsertAfterEqual(Tail(sorted), r)

(* A plausible slip: a sort that is not stable.                            *)
RECURSIVE sort_unstable(_)
sort_unstable(rs) ==
    IF rs = << >> THEN << >>
    ELSE InsertBeforeEqual(sort_unstable(SubSeq(rs, 1, Len(rs) - 1)), rs[Len(rs)])

(* A plausible slip: rows with a local_time already seen are dropped.      *)
RECURSIVE sort_unique(_)
sort_unique(rs) ==
    IF rs = << >> THEN << >>
    ELSE LET head == sort_unique(SubSeq(rs, 1, Len(rs) - 1))
             r    == rs[Len(rs)]
         IN  IF \E k \in 1..Len(head) : head[k].local_time = r.local_time
             THEN head ELSE InsertAfterEqual(head, r)

(* rows.sort(key=lambda r: r["local_time"]): list.sort is stable, and the  *)
(* keys are compared as str.                                               *)
RECURSIVE sort_by_local_time(_)
sort_by_local_time(rs) ==
    IF rs = << >> THEN << >>
    ELSE InsertAfterEqual(sort_by_local_time(SubSeq(rs, 1, Len(rs) - 1)), rs[Len(rs)])

(* Lines 116-117: the values the console line is formatted from, in the    *)
(* order they appear in it.                                                *)
console_line(r) ==
    <<r.local_time, r.source, r.event_id, r.label, r.provider, r.computer, r.user>>

(* Line 123.                                                               *)
csv_header ==
    <<"source", "event_id", "label", "local_time", "utc_time", "provider",
      "computer", "user">>

(* A plausible slip: the two time columns exchanged.                       *)
csv_row_swapped(r) ==
    <<r.source, r.event_id, r.label, r.utc_time, r.local_time, r.provider,
      r.computer, r.user>>

(* Lines 125-126.                                                          *)
csv_row(r) ==
    <<r.source, r.event_id, r.label, r.local_time, r.utc_time, r.provider,
      r.computer, r.user>>

(***************************************************************************)
(* The run of main().                                                      *)
(*   doc      the Event elements of the input document                     *)
(*   system   the offset from UTC of the machine's local time              *)
(*   pc       where main is: "parse", "iter" (list(iter_relevant_events)), *)
(*            "print", "write", "done", or "aborted"                       *)
(*   i        the next Event of the generator                              *)
(*   rows     the list rows                                                *)
(*   j        the next row of the print loop or of the write loop          *)
(*   console  the lines printed so far                                     *)
(*   csv_file the output file: whether it exists, is open, and its rows    *)
(*   err      the exception that ended the run, None if none did           *)
(***************************************************************************)
VARIABLES doc, system, pc, i, rows, j, console, csv_file, err

vars == <<doc, system, pc, i, rows, j, console, csv_file, err>>

NoFile == [exists |-> FALSE, open |-> FALSE, rows |-> << >>]

Init ==
    /\ doc \in Documents
    /\ system \in SystemOffsets
    /\ pc = "parse"
    /\ i = 1
    /\ rows = << >>
    /\ j = 1
    /\ console = << >>
    /\ csv_file = NoFile
    /\ err = None

(* ET.parse and getroot succeed.                                           *)
Parse ==
    /\ pc = "parse"
    /\ pc' = "iter"
    /\ UNCHANGED <<doc, system, i, rows, j, console, csv_file, err>>

(* The file is not one well-formed tree: ET.parse raises ParseError.       *)
ParseFails ==
    /\ pc = "parse"
    /\ pc' = "aborted"
    /\ err' = "ParseError"
    /\ UNCHANGED <<doc, system, i, rows, j, console, csv_file>>

(* The generator skips the next Event.                                     *)
IterSkip ==
    /\ pc = "iter" /\ i <= Len(doc)
    /\ Outcome(doc[i], i, system).kind = "skip"
    /\ i' = i + 1
    /\ UNCHANGED <<doc, system, pc, rows, j, console, csv_file, err>>

(* The generator yields a row, which list() appends.                       *)
IterYield ==
    /\ pc = "iter" /\ i <= Len(doc)
    /\ LET o == Outcome(doc[i], i, system)
       IN  /\ o.kind = "yield"
           /\ rows' = Append(rows, o.row)
    /\ i' = i + 1
    /\ UNCHANGED <<doc, system, pc, j, console, csv_file, err>>

(* The fallback of line 84 raises; nothing catches it.                     *)
IterRaise ==
    /\ pc = "iter" /\ i <= Len(doc)
    /\ LET o == Outcome(doc[i], i, system)
       IN  /\ o.kind = "raise"
           /\ err' = o.err
    /\ pc' = "aborted"
    /\ UNCHANGED <<doc, system, i, rows, j, console, csv_file>>

(* The generator is exhausted: list() returns and the rows are sorted.     *)
Sort ==
    /\ pc = "iter" /\ i > Len(doc)
    /\ rows' = sort_by_local_time(rows)
    /\ pc' = "print"
    /\ j' = 1
    /\ UNCHANGED <<doc, system, i, console, csv_file, err>>

(* One turn of the print loop.                                             *)
PrintRow ==
    /\ pc = "print" /\ j <= Len(rows)
    /\ console' = Append(console, console_line(rows[j]))
    /\ j' = j + 1
    /\ UNCHANGED <<doc, system, pc, i, rows, csv_file, err>>

(* The file is opened for writing and the header row is written.           *)
OpenCsv ==
    /\ pc = "print" /\ j > Len(rows)
    /\ csv_file' = [exists |-> TRUE, open |-> TRUE, rows |-> <<csv_header>>]
    /\ pc' = "write"
    /\ j' = 1
    /\ UNCHANGED <<doc, system, i, rows, console, err>>

(* The file cannot be created: open raises OSError.                        *)
OpenCsvFails ==
    /\ pc = "print" /\ j > Len(rows)
    /\ pc' = "aborted"
    /\ err' = "OSError"
    /\ UNCHANGED <<doc, system, i, rows, j, console, csv_file>>

(* One turn of the write loop.                                             *)
WriteRow ==
    /\ pc = "write" /\ j <= Len(rows)
    /\ csv_file' = [csv_file EXCEPT !.rows = Append(@, csv_row(rows[j]))]
    /\ j' = j + 1
    /\ UNCHANGED <<doc, system, pc, i, rows, console, err>>

(* The with block closes the file and the path is reported.                *)
Finish ==
    /\ pc = "write" /\ j > Len(rows)
    /\ csv_file' = [csv_file EXCEPT !.open = FALSE]
    /\ console' = Append(console, <<"Saved">>)
    /\ pc' = "done"
    /\ UNCHANGED <<doc, system, i, rows, j, err>>

Next ==
    \/ Parse
    \/ ParseFails
    \/ IterSkip
    \/ IterYield
    \/ IterRaise
    \/ Sort
    \/ PrintRow
    \/ OpenCsv
    \/ OpenCsvFails
    \/ WriteRow
    \/ Finish

Spec == Init /\ [][Next]_vars

(***************************************************************************)
(* Vocabulary of the properties.                                           *)
(***************************************************************************)

(* The identifiers of the two tables.                                      *)
Keys == DOMAIN SYSTEM_EVENTS \cup DOMAIN SECURITY_EVENTS

Window == WINDOW_START_HOUR..(WINDOW_END_HOUR - 1)

IsReportLine(l) == Len(l) = 7

(* The console lines of the report, and the data rows of the CSV file.     *)
ReportLines == SelectSeq(console, IsReportLine)

DataRows == IF csv_file.rows = << >> THEN << >> ELSE Tail(csv_file.rows)

(* The hour and the time of day written in "YYYY-MM-DD HH:MM:SS...".       *)
HourOf(text) == Num2(text, 12)

TimeOfDay(text) == SubSeq(text, 12, 19)

(* The Events the generator has been through.                              *)
Processed == IF pc = "parse" THEN {} ELSE 1..(i - 1)

(* The rows that came from the Event at p.                                 *)
RowsOf(p) == {k \in 1..Len(rows) : rows[k].pos = p}

(* The Event has a System block, an identifier of the tables and a         *)
(* timestamp that line 85 converts; LocalTimeOf is that conversion.        *)
Converts(ev) ==
    ev.System /\ ev.EventID \in Keys /\ resolve_dt_utc(SystemTimeAttr(ev)).err = None

LocalTimeOf(ev) == astimezone(resolve_dt_utc(SystemTimeAttr(ev)).dt, system)

LocalTextOf(ev) == isoformat(LocalTimeOf(ev), " ")

(* rows has been sorted.                                                   *)
AfterSort == pc \in {"print", "write", "done"} \/ (pc = "aborted" /\ err = "OSError")

T_09_00_00 == <<"0", "9", ":", "0", "0", ":", "0", "0">>

T_18_00_00 == <<"1", "8", ":", "0", "0", ":", "0", "0">>

(***************************************************************************)
(* C1.  Every row that is yielded, printed or written has the hour of its  *)
(* New York time in [9, 18); an Event whose New York time is exactly       *)
(* 18:00:00 yields no row and one at exactly 09:00:00 yields one.          *)
(***************************************************************************)
C1_WindowHalfOpen ==
    /\ \A k \in 1..Len(rows) :
          /\ HourOf(rows[k].local_time) \in Window
          /\ LocalTimeOf(doc[rows[k].pos]).hour \in Window
    /\ \A k \in 1..Len(ReportLines) : HourOf(ReportLines[k][1]) \in Window
    /\ \A k \in 1..Len(DataRows) : HourOf(DataRows[k][4]) \in Window
    /\ \A p \in Processed :
          Converts(doc[p]) =>
             /\ TimeOfDay(LocalTextOf(doc[p])) = T_18_00_00 => RowsOf(p) = {}
             /\ TimeOfDay(LocalTextOf(doc[p])) = T_09_00_00 => RowsOf(p) # {}

(* A finished run over an Event at 18:00:00 and one at 09:00:00: only the  *)
(* second is in the file.                                                  *)
C1_Witness ==
    /\ pc = "done" /\ Len(doc) = 2 /\ Len(DataRows) = 1
    /\ Converts(doc[1]) /\ TimeOfDay(LocalTextOf(doc[1])) = T_18_00_00
    /\ Converts(doc[2]) /\ TimeOfDay(LocalTextOf(doc[2])) = T_09_00_00
    /\ TimeOfDay(DataRows[1][4]) = T_09_00_00

(***************************************************************************)
(* C2.  Every row yielded, printed or written has an event_id that is a    *)
(* key of one of the two tables, and an Event with another identifier      *)
(* yields no row.                                                          *)
(***************************************************************************)
C2_OnlyTableIds ==
    /\ \A k \in 1..Len(rows) : rows[k].event_id \in Keys
    /\ \A k \in 1..Len(ReportLines) : ReportLines[k][3] \in Keys
    /\ \A k \in 1..Len(DataRows) : DataRows[k][2] \in Keys
    /\ \A p \in Processed : doc[p].EventID \notin Keys => RowsOf(p) = {}

(* A finished run over an Event with identifier 9999, in the window, and   *)
(* an Event that is reported.                                              *)
C2_Witness ==
    /\ pc = "done" /\ Len(DataRows) = 1
    /\ \E p \in 1..Len(doc) :
          /\ doc[p].System /\ doc[p].EventID = "9999"
          /\ fromisoformat(replace_Z(doc[p].SystemTime)).ok

NoTimezone(ev) ==
    /\ try_iso_to_dt_utc(SystemTimeAttr(ev)).ok
    /\ try_iso_to_dt_utc(SystemTimeAttr(ev)).dt.tz = "naive"

ReadAsUtc(ev) ==
    [try_iso_to_dt_utc(SystemTimeAttr(ev)).dt EXCEPT !.tz = "fixed", !.utcoffset = 0]

(***************************************************************************)
(* C3.  A row from a timestamp without timezone information carries the    *)
(* local_time of that timestamp read as UTC, whatever the machine's own    *)
(* timezone.                                                               *)
(***************************************************************************)
C3_NaiveReadAsUtc ==
    \A k \in 1..Len(rows) :
       NoTimezone(doc[rows[k].pos]) =>
          rows[k].local_time = isoformat(astimezone(ReadAsUtc(doc[rows[k].pos]), 0), " ")

(***************************************************************************)
(* C4.  Once sorted, the rows are non-decreasing by their local_time text, *)
(* rows with the same local_time keep the order their Events have in the   *)
(* document, and the console lines and the CSV rows follow that order.     *)
(***************************************************************************)
C4_SortedStable ==
    AfterSort =>
       /\ \A k \in 1..(Len(rows) - 1) :
             ~StrLess(rows[k + 1].local_time, rows[k].local_time)
       /\ \A a, b \in 1..Len(rows) :
             (a < b /\ rows[a].local_time = rows[b].local_time)
                => rows[a].pos < rows[b].pos
       /\ \A k \in 1..Len(ReportLines) :
             /\ ReportLines[k][1] = rows[k].local_time
             /\ ReportLines[k][3] = rows[k].event_id
             /\ ReportLines[k][7] = rows[k].user
       /\ \A k \in 1..Len(DataRows) :
             /\ DataRows[k][4] = rows[k].local_time
             /\ DataRows[k][2] = rows[k].event_id
             /\ DataRows[k][8] = rows[k].user

(* A finished run over two different Events with the same local_time:      *)
(* they are reported in document order.                                    *)
C4_Witness ==
    /\ pc = "done" /\ Len(DataRows) = 2
    /\ doc[1] # doc[2]
    /\ rows[1].local_time = rows[2].local_time
    /\ rows[1].pos = 1 /\ rows[2].pos = 2

(***************************************************************************)
(* C5.  The scenario: one Event, identifier 4624, SystemTime               *)
(* "2025-08-21T13:05:00Z", TargetUserName alice.                           *)
(***************************************************************************)
ScenarioDoc == <<Event("4624", TS_Z, Alice)>>

LT_Claimed == <<"2", "0", "2", "5", "-", "0", "8", "-", "2", "1", " ", "0", "9", ":", "0", "5", ":", "0", "0">>

LT_WithOffset == LT_Claimed \o <<"-", "0", "4", ":", "0", "0">>

ScenarioRow(local_time) ==
    /\ Len(DataRows) = 1 /\ Len(ReportLines) = 1
    /\ DataRows[1][1] = "security"
    /\ DataRows[1][2] = "4624"
    /\ DataRows[1][3] = "Logon Success"
    /\ DataRows[1][4] = local_time
    /\ DataRows[1][8] = "alice"
    /\ ReportLines[1][1] = local_time

(* C5 as claimed: the single output row has source security, event_id      *)
(* 4624, label Logon Success, user alice and local_time exactly            *)
(* "2025-08-21 09:05:00".                                                  *)
C5_ScenarioAsClaimed ==
    (doc = ScenarioDoc /\ pc = "done") => ScenarioRow(LT_Claimed)

(* C5 as amended: the same row, with local_time                            *)
(* "2025-08-21 09:05:00-04:00" (the text carries the offset).              *)
C5_ScenarioWithOffset ==
    (doc = ScenarioDoc /\ pc = "done") => ScenarioRow(LT_WithOffset)

C5_Witness == doc = ScenarioDoc /\ pc = "done" /\ system # 0

(***************************************************************************)
(* C6.  The user of a row of a security Event.                             *)
(***************************************************************************)
Named(d) == d.Name \in {"TargetUserName", "SubjectUserName"}

DataOf(ev) == IF ev.EventData THEN ev.Data ELSE << >>

HasBothNames(ev) ==
    /\ \E k \in 1..Len(DataOf(ev)) : DataOf(ev)[k].Name = "TargetUserName"
    /\ \E k \in 1..Len(DataOf(ev)) : DataOf(ev)[k].Name = "SubjectUserName"

FirstNamed(ev) ==
    DataOf(ev)[CHOOSE k \in 1..Len(DataOf(ev)) :
                  Named(DataOf(ev)[k]) /\ \A m \in 1..(k - 1) : ~Named(DataOf(ev)[m])]

(* C6 as claimed: without a Data child named TargetUserName or             *)
(* SubjectUserName the user is "-"; with both, the user is the text of     *)
(* whichever of the two comes first.                                       *)
C6_FirstNamedWins ==
    \A k \in 1..Len(rows) :
       rows[k].source = "security" =>
          LET ev == doc[rows[k].pos]
          IN  /\ (\A m \in 1..Len(DataOf(ev)) : ~Named(DataOf(ev)[m]))
                    => rows[k].user = "-"
              /\ HasBothNames(ev) => rows[k].user = OrDash(FirstNamed(ev).text)

(* C6 as amended: the user is the text of the first Data child that is     *)
(* named TargetUserName or SubjectUserName and has non-empty text, and     *)
(* "-" when there is no such child.                                        *)
C6_FirstNonEmptyWins ==
    \A k \in 1..Len(rows) :
       rows[k].source = "security" =>
          LET D == DataOf(doc[rows[k].pos])
              Q == {m \in 1..Len(D) : Named(D[m]) /\ D[m].text # None}
          IN  /\ Q = {} => rows[k].user = "-"
              /\ \A m \in Q : (\A n \in Q : m <= n) => rows[k].user = D[m].text

(* A finished run over a logon whose first user field is empty and whose   *)
(* second is bob, and a logon with SubjectUserName before TargetUserName.  *)
C6_Witness ==
    /\ pc = "done" /\ Len(DataRows) = 2
    /\ \E k \in 1..2 :
          /\ DataOf(doc[rows[k].pos])
                = <<Field("TargetUserName", None), Field("SubjectUserName", "bob")>>
          /\ DataRows[k][8] = "bob"
    /\ \E k \in 1..2 :
          /\ DataOf(doc[rows[k].pos])
                = <<Field("SubjectUserName", "bob"), Field("TargetUserName", "alice")>>
          /\ DataRows[k][8] = "bob"

(***************************************************************************)
(* C7.  The user of a row is other than "-" only if the row's source is    *)
(* security and its Event has a TargetUserName or SubjectUserName field    *)
(* with non-empty text; every row of a system Event has user "-".          *)
(***************************************************************************)
C7_UserOnlyForSecurity ==
    /\ \A k \in 1..Len(rows) :
          /\ rows[k].user # "-" =>
                /\ rows[k].source = "security"
                /\ \E m \in 1..Len(DataOf(doc[rows[k].pos])) :
                      /\ Named(DataOf(doc[rows[k].pos])[m])
                      /\ DataOf(doc[rows[k].pos])[m].text \notin {None, ""}
          /\ rows[k].event_id \in DOMAIN SYSTEM_EVENTS => rows[k].user = "-"
    /\ \A k \in 1..Len(ReportLines) :
          (ReportLines[k][2] # "security" \/ ReportLines[k][3] \in DOMAIN SYSTEM_EVENTS)
             => ReportLines[k][7] = "-"
    /\ \A k \in 1..Len(DataRows) :
          (DataRows[k][1] # "security" \/ DataRows[k][2] \in DOMAIN SYSTEM_EVENTS)
             => DataRows[k][8] = "-"

(* A finished run that reports a 6006 Event whose EventData names alice.   *)
C7_Witness ==
    /\ pc = "done"
    /\ \E k \in 1..Len(DataRows) :
          /\ DataRows[k][2] = "6006" /\ DataRows[k][8] = "-"
          /\ doc[rows[k].pos].Data = Alice

Unreadable(ev) ==
    /\ ev.TimeCreated
    /\ ~fromisoformat(replace_Z(ev.SystemTime)).ok
    /\ ~fromisoformat(replace_Z(strip(ev.SystemTime))).ok

Fatal(ev) == ev.System /\ ev.EventID \in Keys /\ Unreadable(ev)

(***************************************************************************)
(* C8.  An Event with a System block and an identifier of the tables whose *)
(* timestamp cannot be read even after the fallback aborts the run, with   *)
(* nothing printed and no CSV file; such a timestamp on an Event with      *)
(* another identifier does not abort it.                                   *)
(***************************************************************************)
C8_UnreadableTimestampAborts ==
    /\ \A p \in 1..Len(doc) :
          Fatal(doc[p]) =>
             /\ pc \in {"parse", "iter", "aborted"}
             /\ i <= p
             /\ console = << >>
             /\ ~csv_file.exists
    /\ (pc = "aborted" /\ err = "ValueError") =>
          /\ Fatal(doc[i])
          /\ console = << >>
          /\ ~csv_file.exists
    /\ (pc = "aborted" /\ err \in {"ValueError", "AttributeError"}) =>
          doc[i].System /\ doc[i].EventID \in Keys

(* A run that passed an Event with identifier 9999 and an unreadable       *)
(* timestamp, and then aborted on a logon with an unreadable timestamp.    *)
C8_Witness ==
    /\ pc = "aborted" /\ err = "ValueError" /\ i = 2
    /\ doc[1].EventID = "9999" /\ Unreadable(doc[1])
    /\ doc[2].EventID = "4624" /\ Unreadable(doc[2])
    /\ console = << >> /\ ~csv_file.exists

ConsoleTriple(l) == <<l[3], l[1], l[7]>>

CsvTriple(r) == <<r[2], r[4], r[8]>>

(***************************************************************************)
(* C9.  When the run has finished, the (event_id, local_time, user)        *)
(* triples of the console lines are those of the CSV rows, line by line    *)
(* in the same order; the file starts with the header.                     *)
(***************************************************************************)
C9_ConsoleAndCsvAgree ==
    pc = "done" =>
       /\ csv_file.rows[1] = csv_header
       /\ Len(ReportLines) = Len(DataRows)
       /\ \A k \in 1..Len(DataRows) :
             ConsoleTriple(ReportLines[k]) = CsvTriple(DataRows[k])
       /\ {ConsoleTriple(ReportLines[k]) : k \in 1..Len(ReportLines)}
             = {CsvTriple(DataRows[k]) : k \in 1..Len(DataRows)}

(* A finished run with two different rows.                                 *)
C9_Witness ==
    /\ pc = "done" /\ Len(DataRows) >= 2
    /\ CsvTriple(DataRows[1]) # CsvTriple(DataRows[2])

Qualifies(ev) == Converts(ev) /\ LocalTimeOf(ev).hour \in Window

(***************************************************************************)
(* C10.  When the run has finished, every Event that has a System block,   *)
(* an identifier of the tables and a local hour in [9, 18) has exactly one *)
(* row, every other Event has none, and the console and the file hold one  *)
(* line per row: repeated Events are neither merged nor multiplied.  The   *)
(* local hour is the hour of the New York time that line 85 computes.      *)
(***************************************************************************)
C10_OutputIsPermutation ==
    pc = "done" =>
       /\ \A p \in 1..Len(doc) :
             Cardinality(RowsOf(p)) = IF Qualifies(doc[p]) THEN 1 ELSE 0
       /\ \A k \in 1..Len(rows) : rows[k].pos \in 1..Len(doc)
       /\ Len(ReportLines) = Len(rows)
       /\ Len(DataRows) = Len(rows)
       /\ \A k \in 1..Len(rows) :
             /\ ReportLines[k][3] = doc[rows[k].pos].EventID
             /\ DataRows[k][2] = doc[rows[k].pos].EventID
             /\ ReportLines[k][1] = LocalTextOf(doc[rows[k].pos])
             /\ DataRows[k][4] = LocalTextOf(doc[rows[k].pos])

(* A finished run over the same Event twice: two rows.                     *)
C10_Witness ==
    /\ pc = "done" /\ Len(doc) >= 2
    /\ doc[1] = doc[2]
    /\ Len(DataRows) = 2 /\ DataRows[1] = DataRows[2]

=============================================================================
